---- MODULE Spec2Model ----
(***************************************************************************)
(* A model of the `expo run:ios` orchestration (runIosAsync) and of the    *)
(* PersistentFileLog exercised by PersistentFileLogTest.                   *)
(*                                                                         *)
(* runIosAsync is one async function; every `await` of an external tool is *)
(* one step of the model.  A step draws the outcome of the external call   *)
(* (a value, or a rejection) from the set of outcomes the call can have,   *)
(* appends the call to `calls`, and moves `pc` to the next statement.      *)
(***************************************************************************)
EXTENDS Integers, Sequences, FiniteSets, TLC

VARIABLES
  pc,                     \* the statement runIosAsync is at
  input,                  \* the options object as the caller passed it
  options,                \* the options object (runIosAsync assigns options.binary)
  props,                  \* the result of resolveOptionsAsync
  binaryPath,             \* let binaryPath (line 122)
  archivePath,            \* let archivePath (line 124)
  shouldUpdateBuildCache, \* let shouldUpdateBuildCache (line 123)
  calls,                  \* the external calls made so far, in order
  logs,                   \* the Log.log / Log.warn lines written so far
  result,                 \* how the run ended
  logFile,                \* PersistentFileLog: the entries stored in the file
  logQueue,               \* PersistentFileLog: operations queued, not yet run
  logErr,                 \* PersistentFileLog: what each completion handler got
  logCleared,             \* a clearEntries has completed
  logAppended,            \* entries whose appendEntry completed since the clear
  logPurged,              \* a purge has completed since the clear
  logIssued,              \* how many operations the client has issued
  badge,                  \* the badge count the OS keeps
  badgeStart,             \* the badge count before the first press
  press,                  \* each press of a button: its handler, where it is, what it read
  showInstructions,       \* BackgroundNotificationHandlingSection's showInstructions
  alerts,                 \* the messages shown by Alert.alert, in order
  platformOS,             \* Platform.OS
  mounted,                \* the NotificationScreen is mounted
  mounts,                 \* how often it was mounted
  listeners,              \* the subscriptions the Notifications module holds
  subIssued,              \* how many subscriptions the module has handed out
  onReceivedListener,     \* this._onReceivedListener (0: undefined)
  onResponseReceivedListener, \* this._onResponseReceivedListener (0: undefined)
  delivered,              \* the notifications delivered, and the handlers each reached
  responseTimers,         \* the responses whose 1000 ms alert timer is pending, oldest first
  nextTick,               \* process.nextTick: "absent", "native" or "polyfill"
  tickNative,             \* process.nextTick existed before the polyfill module ran
  tickLoaded,             \* the polyfill module has run
  tickGiven,              \* the callback and arguments given to each nextTick call
  tickStack,              \* the nextTick call being executed (0: none)
  timers,                 \* the setTimeout(…, 0) callbacks due, oldest first
  invoked                 \* the callback invocations made, in order

iosVars == <<pc, input, options, props, binaryPath, archivePath,
             shouldUpdateBuildCache, calls, logs, result>>
logVars == <<logFile, logQueue, logErr, logCleared, logAppended, logPurged, logIssued>>
pressVars == <<badge, badgeStart, press, showInstructions>>
badgeVars == <<pressVars, alerts>>
screenVars == <<platformOS, mounted, mounts, listeners, subIssued,
                onReceivedListener, onResponseReceivedListener, delivered,
                responseTimers>>
tickVars == <<nextTick, tickNative, tickLoaded, tickGiven, tickStack, timers, invoked>>
appVars == <<badgeVars, screenVars, tickVars>>
vars == <<pc, input, options, props, binaryPath, archivePath,
          shouldUpdateBuildCache, calls, logs, result,
          logFile, logQueue, logErr, logCleared, logAppended, logPurged, logIssued,
          badge, badgeStart, press, showInstructions, alerts,
          platformOS, mounted, mounts, listeners, subIssued,
          onReceivedListener, onResponseReceivedListener, delivered,
          responseTimers,
          nextTick, tickNative, tickLoaded, tickGiven, tickStack, timers, invoked>>

(***************************************************************************)
(* Values                                                                  *)
(***************************************************************************)
NoBinary == ""          \* options.binary undefined (falsy)
NoPath == ""            \* an undefined path
NoProps == [isSimulator |-> FALSE, buildCacheProvider |-> FALSE,
            shouldStartBundler |-> FALSE, resolved |-> FALSE]

\* Options as the CLI passes them: --binary, withArchive, --unstable-rebundle,
\* --configuration Release, --install.
OptionsSet ==
  [binary : {NoBinary, "user.app"}, withArchive : BOOLEAN, rebundle : BOOLEAN,
   release : BOOLEAN, install : BOOLEAN]

\* What resolveOptionsAsync can resolve to.
PropsSet ==
  [isSimulator : BOOLEAN, buildCacheProvider : BOOLEAN,
   shouldStartBundler : BOOLEAN, resolved : {TRUE}]

\* An external call: the function, the step it belongs to, its argument, the
\* cache key merged into its runOptions (uploadBuildCache only), its outcome.
Call(fn, phase, arg, ret) ==
  [fn |-> fn, phase |-> phase, arg |-> arg, key |-> "", ret |-> ret]

Running == [kind |-> "running", detail |-> ""]
Completed == [kind |-> "ok", detail |-> ""]
Rejected(fn) == [kind |-> "rejected", detail |-> fn]

RebundleDeviceError == "Re-bundling on physical devices requires the --binary flag."
RebundleNoBinaryError ==
  "Cannot rebundle because no --binary was provided and no existing binary was found on the device"
BundleNotFoundWarning == "Bundle output not found at expected location"

(***************************************************************************)
(* runIosAsync: helpers                                                    *)
(***************************************************************************)
\* The assignment to options.binary forgotten.
WithBinaryDropped(o, path) == o

\* options.binary = path (lines 60, 69, 94)
WithBinary(o, path) == [o EXCEPT !.binary = path]

\* Which cached build, if any, is restored (lines 49 and 61).
RestoreBranch(o, p) ==
  IF o.binary = NoBinary /\ o.withArchive THEN "archive"
  ELSE IF o.binary = NoBinary /\ p.buildCacheProvider /\ p.isSimulator THEN "cache"
  ELSE "none"

\* The launch placed before the bundler start.
SuccLaunchFirst(step) ==
  CASE step = "binary" -> "port"
    [] step = "port" -> "launchInfo"
    [] step = "launchInfo" -> "terminate"
    [] step = "terminate" -> "launch"
    [] step = "launch" -> "startBundler"
    [] step = "startBundler" -> "logOrStop"
    [] step = "logOrStop" -> "upload"
    [] step = "upload" -> "done"

\* The straight-line order of the steps from the build on (lines 159-212).
Succ(step) ==
  CASE step = "binary" -> "port"
    [] step = "port" -> "launchInfo"
    [] step = "launchInfo" -> "terminate"
    [] step = "terminate" -> "startBundler"
    [] step = "startBundler" -> "launch"
    [] step = "launch" -> "logOrStop"
    [] step = "logOrStop" -> "upload"
    [] step = "upload" -> "done"

\* A throw (or a rejected await) ends the run: nothing in runIosAsync catches it.
Abort(res) == pc' = "aborted" /\ result' = res
Proceed(next) == pc' = next /\ result' = result

Made(c) == calls' = Append(calls, c)

(***************************************************************************)
(* runIosAsync: lines 28-47                                                *)
(***************************************************************************)
\* setNodeEnv, env load, assertPlatform (lines 29-32, 230-236)
AssertPlatform ==
  /\ pc = "start"
  /\ \E darwin \in BOOLEAN :
       IF darwin
         THEN pc' = "ensureNativeProject" /\ result' = result
         ELSE pc' = "exited"
              /\ result' = [kind |-> "exit",
                            detail |-> "iOS apps can only be built on macOS devices."]
  /\ UNCHANGED <<input, options, props, binaryPath, archivePath,
                 shouldUpdateBuildCache, calls, logs>>
  /\ UNCHANGED <<logVars, appVars>>

\* await ensureNativeProjectAsync(...) && install (lines 36-42)
EnsureNativeProject ==
  /\ pc = "ensureNativeProject"
  /\ \E ret \in {"true", "false", "throw"} :
       /\ Made(Call("ensureNativeProjectAsync", "prepare", "", ret))
       /\ IF ret = "throw" THEN Abort(Rejected("ensureNativeProjectAsync"))
          ELSE IF ret = "true" /\ options.install THEN Proceed("syncPods")
          ELSE Proceed("resolveOptions")
  /\ UNCHANGED <<input, options, props, binaryPath, archivePath,
                 shouldUpdateBuildCache, logs>>
  /\ UNCHANGED <<logVars, appVars>>

\* await maybePromptToSyncPodsAsync(projectRoot) (line 43)
MaybePromptToSyncPods ==
  /\ pc = "syncPods"
  /\ \E ret \in {"ok", "throw"} :
       /\ Made(Call("maybePromptToSyncPodsAsync", "prepare", "", ret))
       /\ IF ret = "throw" THEN Abort(Rejected("maybePromptToSyncPodsAsync"))
          ELSE Proceed("resolveOptions")
  /\ UNCHANGED <<input, options, props, binaryPath, archivePath,
                 shouldUpdateBuildCache, logs>>
  /\ UNCHANGED <<logVars, appVars>>

\* const props = await profile(resolveOptionsAsync)(projectRoot, options) (line 47)
ResolveOptions ==
  /\ pc = "resolveOptions"
  /\ \E ret \in {"ok", "throw"}, p \in PropsSet :
       /\ Made(Call("resolveOptionsAsync", "resolveOptions", "", ret))
       /\ IF ret = "throw"
            THEN Abort(Rejected("resolveOptionsAsync")) /\ props' = props
            ELSE Proceed("restore") /\ props' = p
  /\ UNCHANGED <<input, options, binaryPath, archivePath,
                 shouldUpdateBuildCache, logs>>
  /\ UNCHANGED <<logVars, appVars>>

(***************************************************************************)
(* runIosAsync: restore a cached build (lines 49-71)                       *)
(***************************************************************************)
\* options.binary = await XcodeBuild.exportArchiveAsync(archivePath, projectRoot)
ExportCachedArchive ==
  /\ pc = "restore"
  /\ RestoreBranch(options, props) = "archive"
  /\ logs' = Append(logs, "Found cached archive, exporting signed IPA...")
  /\ \E ret \in {"path", "throw"} :
       /\ Made(Call("exportArchiveAsync", "restore", "", ret))
       /\ IF ret = "throw"
            THEN Abort(Rejected("exportArchiveAsync")) /\ options' = options
            ELSE Proceed("rebundle") /\ options' = WithBinary(options, "archive.ipa")
  /\ UNCHANGED <<input, props, binaryPath, archivePath, shouldUpdateBuildCache>>
  /\ UNCHANGED <<logVars, appVars>>

\* const localPath = await resolveBuildCache(...); if (localPath) options.binary = localPath
ResolveCache ==
  /\ pc = "restore"
  /\ RestoreBranch(options, props) = "cache"
  /\ \E ret \in {"path", "null", "throw"} :
       /\ Made(Call("resolveBuildCache", "restore", "", ret))
       /\ IF ret = "throw"
            THEN Abort(Rejected("resolveBuildCache")) /\ options' = options
            ELSE /\ Proceed("rebundle")
                 /\ options' = IF ret = "path" THEN WithBinary(options, "cached.app")
                               ELSE options
  /\ UNCHANGED <<input, props, binaryPath, archivePath, shouldUpdateBuildCache, logs>>
  /\ UNCHANGED <<logVars, appVars>>

\* neither branch of lines 49-71 is taken
NoRestore ==
  /\ pc = "restore"
  /\ RestoreBranch(options, props) = "none"
  /\ Proceed("rebundle")
  /\ UNCHANGED <<input, options, props, binaryPath, archivePath,
                 shouldUpdateBuildCache, calls, logs>>
  /\ UNCHANGED <<logVars, appVars>>

(***************************************************************************)
(* runIosAsync: rebundle (lines 73-120)                                    *)
(***************************************************************************)
\* What the rebundle block does before its first await (lines 73-81, 97).
RebundleEntry(o, p) ==
  IF ~o.rebundle THEN "skip"
  ELSE IF o.binary # NoBinary THEN "config"
  ELSE IF ~p.isSimulator THEN "throw"
  ELSE "lookup"

\* if (options.rebundle) { Log.warn(...); if (!options.binary) { if (!props.isSimulator) throw ...
RebundleBegin ==
  /\ pc = "rebundle"
  /\ LET entry == RebundleEntry(options, props) IN
       /\ logs' = IF entry = "skip" THEN logs
                  ELSE Append(logs, "The --unstable-rebundle flag is experimental")
       /\ IF entry = "skip" THEN Proceed("binary")
          ELSE IF entry = "throw"
            THEN Abort([kind |-> "Error", detail |-> RebundleDeviceError])
          ELSE IF entry = "lookup" THEN Proceed("getAppId")
          ELSE Proceed("rebundleConfig")
  /\ UNCHANGED <<input, options, props, binaryPath, archivePath,
                 shouldUpdateBuildCache, calls>>
  /\ UNCHANGED <<logVars, appVars>>

\* const appId = await new AppleAppIdResolver(projectRoot).getAppIdAsync() (line 82)
GetAppId ==
  /\ pc = "getAppId"
  /\ \E ret \in {"ok", "throw"} :
       /\ Made(Call("getAppIdAsync", "rebundle", "", ret))
       /\ IF ret = "throw" THEN Abort(Rejected("getAppIdAsync"))
          ELSE Proceed("getContainerPath")
  /\ UNCHANGED <<input, options, props, binaryPath, archivePath,
                 shouldUpdateBuildCache, logs>>
  /\ UNCHANGED <<logVars, appVars>>

\* The check of line 86 left out: no path is taken for a path.
ContainerPathOutcomeUnchecked(ret) ==
  IF ret = "throw" THEN Rejected("getContainerPathAsync") ELSE Running

\* How runIosAsync goes on after getContainerPathAsync returned (lines 86-94):
\* no path is a CommandError, a path becomes options.binary.
ContainerPathOutcome(ret) ==
  IF ret = "throw" THEN Rejected("getContainerPathAsync")
  ELSE IF ret = "null" THEN [kind |-> "CommandError", detail |-> RebundleNoBinaryError]
  ELSE Running

\* const possibleBinaryPath = await getContainerPathAsync(props.device, { appId })
GetContainerPath ==
  /\ pc = "getContainerPath"
  /\ \E ret \in {"path", "null", "throw"} :
       /\ Made(Call("getContainerPathAsync", "rebundle", "", ret))
       /\ IF ContainerPathOutcome(ret) # Running
            THEN Abort(ContainerPathOutcome(ret)) /\ options' = options /\ logs' = logs
            ELSE /\ Proceed("rebundleConfig")
                 /\ options' = WithBinary(options, "container.app")
                 /\ logs' = Append(logs, "Re-using existing binary path:")
  /\ UNCHANGED <<input, props, binaryPath, archivePath, shouldUpdateBuildCache>>
  /\ UNCHANGED <<logVars, appVars>>

\* await spawnAsync('node', [.../getAppConfig.js, projectRoot, EXConstants.bundle]) (lines 97-103)
RebundleConfig ==
  /\ pc = "rebundleConfig"
  /\ logs' = Append(logs, "Rebundling the Expo config file")
  /\ \E ret \in {"ok", "throw"} :
       /\ Made(Call("spawnAsync", "rebundle", "getAppConfig.js", ret))
       /\ IF ret = "throw" THEN Abort(Rejected("spawnAsync"))
          ELSE Proceed("rebundleApp")
  /\ UNCHANGED <<input, options, props, binaryPath, archivePath, shouldUpdateBuildCache>>
  /\ UNCHANGED <<logVars, appVars>>

\* The missing bundle thrown instead of warned about.
BundleMissingRaised ==
  [log |-> BundleNotFoundWarning, next |-> "binary",
   res |-> [kind |-> "Error", detail |-> BundleNotFoundWarning]]

\* What is done when main.jsbundle is not in the binary (lines 117-119): a warning.
BundleMissing == [log |-> BundleNotFoundWarning, next |-> "binary", res |-> Running]

\* if (fs.existsSync(possibleBundleOutput)) { await exportEagerAsync(...) } else { Log.warn(...) }
RebundleApp ==
  /\ pc = "rebundleApp"
  /\ \E exists \in BOOLEAN, ret \in {"ok", "throw"} :
       IF exists
         THEN /\ logs' = Append(logs, "Rebundling the app...")
              /\ calls' = calls \o <<Call("existsSync", "rebundle", "main.jsbundle", "true"),
                                     Call("exportEagerAsync", "rebundle", "", ret)>>
              /\ IF ret = "throw" THEN Abort(Rejected("exportEagerAsync"))
                 ELSE Proceed("binary")
         ELSE /\ ret = "ok"
              /\ logs' = Append(logs, BundleMissing.log)
              /\ Made(Call("existsSync", "rebundle", "main.jsbundle", "false"))
              /\ pc' = (IF BundleMissing.res = Running THEN BundleMissing.next ELSE "aborted")
              /\ result' = BundleMissing.res
  /\ UNCHANGED <<input, options, props, binaryPath, archivePath, shouldUpdateBuildCache>>
  /\ UNCHANGED <<logVars, appVars>>

(***************************************************************************)
(* runIosAsync: build or reuse a binary (lines 122-158)                    *)
(***************************************************************************)
\* binaryPath = await getValidBinaryPathAsync(options.binary, props) (lines 125-127)
UseCustomBinary ==
  /\ pc = "binary"
  /\ options.binary # NoBinary
  /\ \E ret \in {"path", "throw"} :
       /\ Made(Call("getValidBinaryPathAsync", "binary", options.binary, ret))
       /\ IF ret = "throw"
            THEN Abort(Rejected("getValidBinaryPathAsync"))
                 /\ binaryPath' = binaryPath /\ logs' = logs
            ELSE /\ Proceed(Succ("binary"))
                 /\ binaryPath' = options.binary
                 /\ logs' = Append(logs, "Using custom binary path:")
  /\ UNCHANGED <<input, options, props, archivePath, shouldUpdateBuildCache>>
  /\ UNCHANGED <<logVars, appVars>>

\* if (options.configuration === 'Release') eagerBundleOptions = await exportEagerAsync(...)
EagerBundle ==
  /\ pc = "binary"
  /\ options.binary = NoBinary
  /\ \E ret \in {"ok", "throw"} :
       IF options.release
         THEN /\ Made(Call("exportEagerAsync", "binary", "", ret))
              /\ IF ret = "throw" THEN Abort(Rejected("exportEagerAsync"))
                 ELSE Proceed("xcode")
         ELSE /\ ret = "ok"
              /\ calls' = calls
              /\ Proceed("xcode")
  /\ UNCHANGED <<input, options, props, binaryPath, archivePath,
                 shouldUpdateBuildCache, logs>>
  /\ UNCHANGED <<logVars, appVars>>

\* if (!props.isSimulator && props.buildCacheProvider && options.withArchive) (line 140)
ArchiveBuild(o, p) == ~p.isSimulator /\ p.buildCacheProvider /\ o.withArchive

\* The build of the binary, one await at a time: at "xcode" either
\* archivePath = await XcodeBuild.archiveAsync(...) (line 142), after which the
\* run waits at "exportBuilt", or await XcodeBuild.buildAsync(...) and
\* getAppBinaryPath (lines 150-155); at "exportBuilt"
\* binaryPath = await XcodeBuild.exportArchiveAsync(archivePath, projectRoot)
\* (line 148); after either, shouldUpdateBuildCache = true (line 157).
BuildBinary ==
  /\ pc \in {"xcode", "exportBuilt"}
  /\ \E ret \in {"path", "throw"} :
       IF pc = "exportBuilt"
         THEN /\ Made(Call("exportArchiveAsync", "binary", archivePath, ret))
              /\ archivePath' = archivePath
              /\ IF ret = "throw" THEN
                   /\ Abort(Rejected("exportArchiveAsync"))
                   /\ UNCHANGED <<binaryPath, shouldUpdateBuildCache>>
                 ELSE
                   /\ Proceed(Succ("binary"))
                   /\ binaryPath' = "build.ipa"
                   /\ shouldUpdateBuildCache' = TRUE
         ELSE IF ArchiveBuild(options, props)
         THEN /\ Made(Call("archiveAsync", "binary", "", ret))
              /\ UNCHANGED <<binaryPath, shouldUpdateBuildCache>>
              /\ IF ret = "throw" THEN
                   /\ Abort(Rejected("archiveAsync"))
                   /\ archivePath' = archivePath
                 ELSE
                   /\ Proceed("exportBuilt")
                   /\ archivePath' = "build.xcarchive"
         ELSE /\ Made(Call("buildAsync", "binary", "", ret))
              /\ archivePath' = archivePath
              /\ IF ret = "throw" THEN
                   /\ Abort(Rejected("buildAsync"))
                   /\ UNCHANGED <<binaryPath, shouldUpdateBuildCache>>
                 ELSE
                   /\ Proceed(Succ("binary"))
                   /\ binaryPath' = "build.app"
                   /\ shouldUpdateBuildCache' = TRUE
  /\ UNCHANGED <<input, options, props, logs>>
  /\ UNCHANGED <<logVars, appVars>>

(***************************************************************************)
(* runIosAsync: launch (lines 159-210)                                     *)
(***************************************************************************)
\* The result of the port check ignored.
AfterPortCheckIgnored(should, available) == should

\* props.shouldStartBundler after the port check (lines 162-164): the check is
\* made only when the bundler should start, and a busy port turns it off.
AfterPortCheck(should, available) == should /\ available

\* if (props.shouldStartBundler && !(await ensurePortAvailabilityAsync(...)))
EnsurePort ==
  /\ pc = "port"
  /\ \E ret \in {"true", "false", "throw"} :
       IF props.shouldStartBundler
         THEN /\ Made(Call("ensurePortAvailabilityAsync", "port", "", ret))
              /\ IF ret = "throw"
                   THEN Abort(Rejected("ensurePortAvailabilityAsync")) /\ props' = props
                   ELSE /\ Proceed(Succ("port"))
                        /\ props' = [props EXCEPT !.shouldStartBundler =
                                       AfterPortCheck(props.shouldStartBundler, ret = "true")]
         ELSE /\ ret = "true"
              /\ calls' = calls
              /\ props' = props
              /\ Proceed(Succ("port"))
  /\ UNCHANGED <<input, options, binaryPath, archivePath, shouldUpdateBuildCache, logs>>
  /\ UNCHANGED <<logVars, appVars>>

\* const launchInfo = await getLaunchInfoForBinaryAsync(binaryPath) (line 166);
\* the terminate step is taken on a simulator only (line 170).
GetLaunchInfo ==
  /\ pc = "launchInfo"
  /\ \E ret \in {"ok", "throw"} :
       /\ Made(Call("getLaunchInfoForBinaryAsync", "launchInfo", binaryPath, ret))
       /\ IF ret = "throw" THEN Abort(Rejected("getLaunchInfoForBinaryAsync"))
          ELSE IF props.isSimulator THEN Proceed(Succ("launchInfo"))
          ELSE Proceed(Succ(Succ("launchInfo")))
  /\ UNCHANGED <<input, options, props, binaryPath, archivePath,
                 shouldUpdateBuildCache, logs>>
  /\ UNCHANGED <<logVars, appVars>>

\* The try/catch around terminate left out.
TerminateFailedFatal == Rejected("simctlAsync")

\* How the run goes on when simctl terminate rejects (lines 173-176): the catch
\* block only writes a debug line.
TerminateFailed == Running

\* try { await simctlAsync(['terminate', udid, bundleId]) } catch (error) { debug(...) }
Terminate ==
  /\ pc = "terminate"
  /\ \E ret \in {"ok", "throw"} :
       /\ Made(Call("simctlAsync", "terminate", "terminate", ret))
       /\ IF ret = "throw" /\ TerminateFailed # Running
            THEN Abort(TerminateFailed)
            ELSE Proceed(Succ("terminate"))
  /\ UNCHANGED <<input, options, props, binaryPath, archivePath,
                 shouldUpdateBuildCache, logs>>
  /\ UNCHANGED <<logVars, appVars>>

\* headless: !props.shouldStartBundler (line 183)
Headless(p) == IF p.shouldStartBundler THEN "interactive" ELSE "headless"

\* const isCustomBinary = !!options.binary (line 167)
IsCustomBinary(o) == o.binary # NoBinary

\* scheme: (await getSchemesForIosAsync(projectRoot))?.[0] (line 190): without
\* a custom binary the scheme argument is awaited before startBundlerAsync is
\* called; with one it is launchInfo.schemes[0] and nothing is awaited.
ResolveScheme ==
  /\ pc = "startBundler"
  /\ ~IsCustomBinary(options)
  /\ \E ret \in {"ok", "throw"} :
       /\ Made(Call("getSchemesForIosAsync", "startBundler", "", ret))
       /\ IF ret = "throw" THEN Abort(Rejected("getSchemesForIosAsync"))
          ELSE Proceed("startBundlerCall")
  /\ UNCHANGED <<input, options, props, binaryPath, archivePath,
                 shouldUpdateBuildCache, logs>>
  /\ UNCHANGED <<logVars, appVars>>

\* const manager = await startBundlerAsync(projectRoot, { port, headless, scheme })
\* (lines 181-191): called once the scheme is known, which with a custom binary
\* is on reaching the step.
StartBundler ==
  /\ pc \in (IF IsCustomBinary(options) THEN {"startBundler", "startBundlerCall"}
             ELSE {"startBundlerCall"})
  /\ \E ret \in {"ok", "throw"} :
       /\ Made(Call("startBundlerAsync", "startBundler", Headless(props), ret))
       /\ IF ret = "throw" THEN Abort(Rejected("startBundlerAsync"))
          ELSE Proceed(Succ("startBundler"))
  /\ UNCHANGED <<input, options, props, binaryPath, archivePath,
                 shouldUpdateBuildCache, logs>>
  /\ UNCHANGED <<logVars, appVars>>

\* await launchAppAsync(binaryPath, manager, {...}, launchInfo.bundleId) (lines 194-203)
LaunchApp ==
  /\ pc = "launch"
  /\ \E ret \in {"ok", "throw"} :
       /\ Made(Call("launchAppAsync", "launch", binaryPath, ret))
       /\ IF ret = "throw" THEN Abort(Rejected("launchAppAsync"))
          ELSE Proceed(Succ("launch"))
  /\ UNCHANGED <<input, options, props, binaryPath, archivePath,
                 shouldUpdateBuildCache, logs>>
  /\ UNCHANGED <<logVars, appVars>>

\* The upload decided by the provider alone.
ShouldUploadAlways(flag, p) == p.buildCacheProvider

\* if (shouldUpdateBuildCache && props.buildCacheProvider) (line 212)
ShouldUpload(flag, p) == flag /\ p.buildCacheProvider

\* Where the run goes after the log-or-stop step: to the upload, or to the end.
AfterLogOrStop ==
  IF ShouldUpload(shouldUpdateBuildCache, props) THEN Succ("logOrStop")
  ELSE Succ(Succ("logOrStop"))

\* if (props.shouldStartBundler) { logProjectLogsLocation(); } (lines 206-207)
LogProjectLogsLocation ==
  /\ pc = "logOrStop"
  /\ props.shouldStartBundler
  /\ Made(Call("logProjectLogsLocation", "logOrStop", "", "ok"))
  /\ pc' = AfterLogOrStop
  /\ result' = IF AfterLogOrStop = "done" THEN Completed ELSE result
  /\ UNCHANGED <<input, options, props, binaryPath, archivePath,
                 shouldUpdateBuildCache, logs>>
  /\ UNCHANGED <<logVars, appVars>>

\* else { await manager.stopAsync(); } (lines 208-210)
StopBundler ==
  /\ pc = "logOrStop"
  /\ ~props.shouldStartBundler
  /\ \E ret \in {"ok", "throw"} :
       /\ Made(Call("stopAsync", "logOrStop", "", ret))
       /\ IF ret = "throw" THEN Abort(Rejected("stopAsync"))
          ELSE /\ pc' = AfterLogOrStop
               /\ result' = IF AfterLogOrStop = "done" THEN Completed ELSE result
  /\ UNCHANGED <<input, options, props, binaryPath, archivePath,
                 shouldUpdateBuildCache, logs>>
  /\ UNCHANGED <<logVars, appVars>>

(***************************************************************************)
(* runIosAsync: upload to the build cache (lines 212-227)                  *)
(***************************************************************************)
\* const cacheKey = !props.isSimulator && archivePath ? { unsigned: true } : {}
CacheKey(p, archive) == IF ~p.isSimulator /\ archive # NoPath THEN "unsigned" ELSE ""

\* buildPath: archivePath || binaryPath (line 219)
BuildPath(archive, binary) == IF archive # NoPath THEN archive ELSE binary

\* await uploadBuildCache({ ..., buildPath, runOptions: { ...options, ...cacheKey } })
UploadBuildCache ==
  /\ pc = "upload"
  /\ \E ret \in {"ok", "throw"} :
       /\ Made([Call("uploadBuildCache", "upload", BuildPath(archivePath, binaryPath), ret)
                  EXCEPT !.key = CacheKey(props, archivePath)])
       /\ IF ret = "throw" THEN Abort(Rejected("uploadBuildCache"))
          ELSE pc' = Succ("upload") /\ result' = Completed
  /\ UNCHANGED <<input, options, props, binaryPath, archivePath,
                 shouldUpdateBuildCache, logs>>
  /\ UNCHANGED <<logVars, appVars>>

(***************************************************************************)
(* runIosAsync: the run                                                    *)
(***************************************************************************)
\* No button of the NotificationScreen pressed.
BadgeIdle ==
  /\ badge = 0
  /\ badgeStart = 0
  /\ press = <<>>
  /\ showInstructions = FALSE
  /\ alerts = <<>>

\* The NotificationScreen not mounted.
ScreenIdle ==
  /\ platformOS = "ios"
  /\ mounted = FALSE
  /\ mounts = 0
  /\ listeners = {}
  /\ subIssued = 0
  /\ onReceivedListener = 0
  /\ onResponseReceivedListener = 0
  /\ delivered = {}
  /\ responseTimers = <<>>

\* The nextTick polyfill module not run.
TickIdle ==
  /\ nextTick = "absent"
  /\ tickNative = FALSE
  /\ tickLoaded = FALSE
  /\ tickGiven = <<>>
  /\ tickStack = 0
  /\ timers = <<>>
  /\ invoked = <<>>

AppIdle == BadgeIdle /\ ScreenIdle /\ TickIdle

InitIos ==
  /\ pc = "start"
  /\ input \in OptionsSet
  /\ options = input
  /\ props = NoProps
  /\ binaryPath = NoPath
  /\ archivePath = NoPath
  /\ shouldUpdateBuildCache = FALSE
  /\ calls = <<>>
  /\ logs = <<>>
  /\ result = Running

\* PersistentFileLog as constructed: no file yet, nothing queued.
InitLog ==
  /\ logFile = <<>>
  /\ logQueue = <<>>
  /\ logErr = <<>>
  /\ logCleared = FALSE
  /\ logAppended = <<>>
  /\ logPurged = FALSE
  /\ logIssued = 0

Init == InitIos /\ InitLog /\ AppIdle

Next ==
  \/ AssertPlatform
  \/ EnsureNativeProject
  \/ MaybePromptToSyncPods
  \/ ResolveOptions
  \/ ExportCachedArchive
  \/ ResolveCache
  \/ NoRestore
  \/ RebundleBegin
  \/ GetAppId
  \/ GetContainerPath
  \/ RebundleConfig
  \/ RebundleApp
  \/ UseCustomBinary
  \/ EagerBundle
  \/ BuildBinary
  \/ EnsurePort
  \/ GetLaunchInfo
  \/ Terminate
  \/ ResolveScheme
  \/ StartBundler
  \/ LaunchApp
  \/ LogProjectLogsLocation
  \/ StopBundler
  \/ UploadBuildCache

Spec == Init /\ [][Next]_vars

(***************************************************************************)
(* Reading the record of a run                                             *)
(***************************************************************************)
InCalls(fn) == \E i \in DOMAIN calls : calls[i].fn = fn
Returned(fn, ret) == \E i \in DOMAIN calls : calls[i].fn = fn /\ calls[i].ret = ret
Count(fn) == Cardinality({i \in DOMAIN calls : calls[i].fn = fn})
Before(fn1, fn2) ==
  \A j \in DOMAIN calls : calls[j].fn = fn2 =>
    \E i \in DOMAIN calls : i < j /\ calls[i].fn = fn1
InPhase(phase) == \E i \in DOMAIN calls : calls[i].phase = phase

\* The order in which the specification lists the steps.
PhaseRank(phase) ==
  CASE phase = "prepare" -> 0
    [] phase = "resolveOptions" -> 1
    [] phase = "restore" -> 2
    [] phase = "rebundle" -> 3
    [] phase = "binary" -> 4
    [] phase = "port" -> 5
    [] phase = "launchInfo" -> 6
    [] phase = "terminate" -> 7
    [] phase = "startBundler" -> 8
    [] phase = "launch" -> 9
    [] phase = "logOrStop" -> 10
    [] phase = "upload" -> 11

\* The statements that lie after the cached-build block of lines 49-71.
AfterRestorePcs ==
  {"rebundle", "getAppId", "getContainerPath", "rebundleConfig", "rebundleApp",
   "binary", "xcode", "exportBuilt", "port", "launchInfo", "terminate",
   "startBundler", "startBundlerCall",
   "launch", "logOrStop", "upload", "done"}

FreshBinaries == {"build.app", "build.ipa"}
Launched(set) ==
  \E i \in DOMAIN calls :
    calls[i].fn = "launchAppAsync" /\ calls[i].ret = "ok" /\ calls[i].arg \in set

(***************************************************************************)
(* Claims about runIosAsync                                                *)
(***************************************************************************)
\* C1: the steps of a run happen in the listed order (resolve options, restore,
\* rebundle, build or reuse, terminate, start bundler, launch, log or stop,
\* upload): no call of a later step precedes a call of an earlier one, a step
\* starts only after every earlier call has returned (a rejected call ends the
\* run, except the caught terminate), and a completed run has made the steps
\* that are not optional, the terminate step exactly on a simulator.
C1_StepsInOrder ==
  /\ \A i, j \in DOMAIN calls :
       i < j => PhaseRank(calls[i].phase) <= PhaseRank(calls[j].phase)
  /\ \A i \in DOMAIN calls :
       (i < Len(calls) /\ calls[i].ret = "throw") => calls[i].fn = "simctlAsync"
  /\ pc = "done" =>
       /\ \A ph \in {"resolveOptions", "binary", "launchInfo", "startBundler",
                     "launch", "logOrStop"} : InPhase(ph)
       /\ InPhase("terminate") <=> props.isSimulator

\* A completed simulator run that tried the cache, built, and uploaded.
C1_Witness ==
  /\ pc = "done"
  /\ InCalls("resolveBuildCache") /\ InCalls("buildAsync")
  /\ InCalls("simctlAsync") /\ InCalls("uploadBuildCache")

\* C2: with no explicit binary, a cache provider and a simulator target, the
\* build cache is consulted (resolveBuildCache) once the cached-build block is
\* passed, and before any buildAsync, whatever the other options are.
C2_CacheTriedBeforeBuild ==
  (input.binary = NoBinary /\ props.resolved /\ props.buildCacheProvider
     /\ props.isSimulator /\ pc \in AfterRestorePcs)
  => (InCalls("resolveBuildCache") /\ Before("resolveBuildCache", "buildAsync"))

\* C3: uploadBuildCache is called only with a provider configured and after
\* the launch of a binary built in this run; a completed run has called it
\* exactly when a provider is configured and the launched binary was built in
\* the run; a launched binary that was passed in, restored or re-used comes
\* with no build and no upload.
C3_UploadIffFreshBuild ==
  /\ InCalls("uploadBuildCache") =>
       (props.buildCacheProvider /\ Launched(FreshBinaries)
          /\ (InCalls("buildAsync") \/ InCalls("archiveAsync")))
  /\ pc = "done" =>
       (InCalls("uploadBuildCache") <=>
          (props.buildCacheProvider /\ Launched(FreshBinaries)))
  /\ Launched({"user.app", "cached.app", "archive.ipa", "container.app"}) =>
       (~InCalls("buildAsync") /\ ~InCalls("archiveAsync")
          /\ ~InCalls("uploadBuildCache"))
  /\ (pc = "done" /\ ~Launched(FreshBinaries)) =>
       Launched({"user.app", "cached.app", "archive.ipa", "container.app"})

\* A completed run that uploaded its fresh build.
C3_Witness == pc = "done" /\ Returned("uploadBuildCache", "ok") /\ Returned("buildAsync", "path")

\* C4: a rejected simctl terminate is not fatal: from the terminate step the run
\* goes to the bundler start with the same state whatever terminate returned,
\* and no run ends because of it.
C4_TerminateNonFatal ==
  /\ [][pc = "terminate" =>
         (/\ pc' = "startBundler"
          /\ result' = Running
          /\ UNCHANGED <<input, options, props, binaryPath, archivePath,
                         shouldUpdateBuildCache, logs>>)]_vars
  /\ [](result # Rejected("simctlAsync"))

\* A run completed although terminate was rejected.
C4_Witness ==
  /\ pc = "done"
  /\ Returned("simctlAsync", "throw")
  /\ Returned("startBundlerAsync", "ok") /\ Returned("launchAppAsync", "ok")

\* C5: rebundle on a physical device without a caller-given --binary aborts with
\* the "requires the --binary flag" error before any config rebundle, build,
\* bundler start, launch or upload, whatever the other options are.
C5_RebundleOnDeviceAborts ==
  (input.rebundle /\ input.binary = NoBinary /\ props.resolved /\ ~props.isSimulator)
  => /\ \A fn \in {"spawnAsync", "buildAsync", "archiveAsync", "startBundlerAsync",
                   "launchAppAsync", "uploadBuildCache"} : ~InCalls(fn)
     /\ pc \notin (AfterRestorePcs \ {"rebundle"})
     /\ (pc = "aborted" /\ InPhase("restore")) =>
          result = [kind |-> "Error", detail |-> RebundleDeviceError]

\* C6 as stated: a missing main.jsbundle during a rebundle ends the run with a
\* thrown failure.
C6_BundleMissingThrows ==
  Returned("existsSync", "false") =>
    (pc = "aborted" /\ result.detail = BundleNotFoundWarning)

\* C6 as amended: a missing main.jsbundle during a rebundle is logged as a
\* warning; the app is not re-bundled (no exportEagerAsync), nothing is thrown
\* for it, and the run goes on to the binary step.
C6_BundleMissingWarns ==
  \A i \in DOMAIN calls :
    (calls[i].fn = "existsSync" /\ calls[i].ret = "false") =>
      /\ \E k \in DOMAIN logs : logs[k] = BundleNotFoundWarning
      /\ ~InCalls("exportEagerAsync")
      /\ result.detail # BundleNotFoundWarning
      /\ i = Len(calls) => (pc = "binary" /\ result = Running)
      /\ pc = "aborted" => (i < Len(calls) /\ result.kind = "rejected")

\* A run that completed after the bundle was found missing.
C6_Witness ==
  /\ pc = "done"
  /\ Returned("existsSync", "false")
  /\ Returned("launchAppAsync", "ok")

\* C7 as stated: finding no installed app for the id never makes the run abort.
C7_NoContainerIsBenign ==
  Returned("getContainerPathAsync", "null") => pc # "aborted"

\* C7 as amended: when getContainerPathAsync finds no installed app (returns no
\* path), runIosAsync aborts at once with the CommandError "Cannot rebundle
\* because no --binary was provided and no existing binary was found"; no
\* later step runs.
C7_NoContainerAborts ==
  \A i \in DOMAIN calls :
    (calls[i].fn = "getContainerPathAsync" /\ calls[i].ret = "null") =>
      /\ i = Len(calls)
      /\ pc = "aborted"
      /\ result = [kind |-> "CommandError", detail |-> RebundleNoBinaryError]
      /\ options.binary = NoBinary

\* A rebundle on a simulator whose app lookup found nothing.
C7_Witness ==
  /\ Returned("getContainerPathAsync", "null")
  /\ input.rebundle /\ props.isSimulator

\* C8: a run that launches has started the bundler exactly once, before the
\* launch; after a successful launch exactly one of "log the project log
\* location" (shouldStartBundler true) and manager.stopAsync (false) happens;
\* a port reported unavailable turns shouldStartBundler off, the bundler is
\* then started headless and stopped after the launch.
C8_BundlerStartedOnceThenLoggedOrStopped ==
  /\ InCalls("launchAppAsync") =>
       (Count("startBundlerAsync") = 1 /\ Before("startBundlerAsync", "launchAppAsync")
          /\ Returned("startBundlerAsync", "ok"))
  /\ \A i \in DOMAIN calls :
       calls[i].fn = "startBundlerAsync" =>
         (calls[i].arg = "headless" <=> ~props.shouldStartBundler)
  /\ (InCalls("logProjectLogsLocation") \/ InCalls("stopAsync")) =>
       Returned("launchAppAsync", "ok")
  /\ (Returned("launchAppAsync", "ok") /\ pc # "logOrStop") =>
       /\ Count("logProjectLogsLocation") + Count("stopAsync") = 1
       /\ InCalls("logProjectLogsLocation") <=> props.shouldStartBundler
  /\ Returned("ensurePortAvailabilityAsync", "false") =>
       /\ ~props.shouldStartBundler
       /\ ~InCalls("logProjectLogsLocation")
       /\ Returned("launchAppAsync", "ok") /\ pc # "logOrStop" => InCalls("stopAsync")

\* A completed run whose port had become busy: headless bundler, stopped.
C8_Witness ==
  /\ pc = "done"
  /\ Returned("ensurePortAvailabilityAsync", "false")
  /\ Returned("stopAsync", "ok")

\* The external steps the claim of "no retry" names.
ExternalSteps ==
  {"resolveBuildCache", "exportArchiveAsync", "archiveAsync", "buildAsync",
   "exportEagerAsync", "simctlAsync", "startBundlerAsync", "launchAppAsync",
   "stopAsync", "uploadBuildCache"}

\* C9: no external step is invoked twice in a run, whatever the options and
\* whatever the outcomes of the steps.
C9_EachStepAtMostOnce == \A fn \in ExternalSteps : Count(fn) <= 1

\* A completed run that exported the cached archive and re-bundled into it.
C9_Witness ==
  /\ pc = "done"
  /\ InCalls("exportArchiveAsync") /\ InCalls("exportEagerAsync")
  /\ InCalls("simctlAsync") /\ InCalls("stopAsync")

\* C12: with no explicit binary, a physical device, a cache provider and
\* withArchive, a completed run has built an archive (archiveAsync), then
\* exported it (exportArchiveAsync), launched the exported IPA, and uploaded the
\* archive to the build cache with the cache key marked unsigned.
C12_ArchiveBuiltExportedUploaded ==
  (input.binary = NoBinary /\ input.withArchive /\ props.resolved
     /\ ~props.isSimulator /\ props.buildCacheProvider /\ pc = "done")
  => /\ InCalls("archiveAsync")
     /\ Before("archiveAsync", "exportArchiveAsync")
     /\ Launched({"build.ipa"})
     /\ \E i \in DOMAIN calls :
          /\ calls[i].fn = "uploadBuildCache"
          /\ calls[i].arg = "build.xcarchive"
          /\ calls[i].key = "unsigned"

(***************************************************************************)
(* PersistentFileLog, as PersistentFileLogTest uses it: entries kept in a  *)
(* file; clearEntries, appendEntry and purgeEntriesNotMatchingFilter are   *)
(* queued and run one at a time, each ending by calling its completion     *)
(* handler; readEntries reads the file at once.                            *)
(***************************************************************************)
MaxLogOps == 4

\* The strings the test appends.
LogEntries == {"Test entry 1", "Test entry 2"}

\* Filters, each given by the entries it accepts; the test's filter is
\* entryString.contains("2").
LogFilters == {{"Test entry 2"}, {"Test entry 1", "Test entry 2"}}

NoError == "null"

\* persistentLog.readEntries()
ReadEntries == logFile

\* The file after an entry was appended with the entry-first order reversed.
AppendedFirst(file, entry) == <<entry>> \o file

\* The file after appendEntry's queued work ran.
Appended(file, entry) == Append(file, entry)

\* The file after clearEntries' queued work ran.
Cleared(file) == <<>>

\* The purge with the filter's sense inverted: the matching entries go.
PurgedMatching(file, filter) == SelectSeq(file, LAMBDA e : e \notin filter)

\* The file after purgeEntriesNotMatchingFilter's queued work ran.
Purged(file, filter) == SelectSeq(file, LAMBDA e : e \in filter)

\* The client's side of the runIosAsync variables while the log is exercised.
IosIdle ==
  /\ pc = "idle"
  /\ input = [binary |-> NoBinary, withArchive |-> FALSE, rebundle |-> FALSE,
              release |-> FALSE, install |-> FALSE]
  /\ options = input
  /\ props = NoProps
  /\ binaryPath = NoPath
  /\ archivePath = NoPath
  /\ shouldUpdateBuildCache = FALSE
  /\ calls = <<>>
  /\ logs = <<>>
  /\ result = Running

Enqueue(op) ==
  /\ logIssued' = logIssued + 1
  /\ logQueue' = Append(logQueue, op)
  /\ UNCHANGED <<logFile, logErr, logCleared, logAppended, logPurged>>
  /\ UNCHANGED <<iosVars, appVars>>

\* persistentLog.clearEntries { ... }
ClearEntries ==
  /\ logIssued < MaxLogOps
  /\ Enqueue([op |-> "clear", entry |-> "", filter |-> {}])

\* persistentLog.appendEntry(entry) { ... }
AppendEntry ==
  /\ logIssued < MaxLogOps
  /\ \E e \in LogEntries : Enqueue([op |-> "append", entry |-> e, filter |-> {}])

\* persistentLog.purgeEntriesNotMatchingFilter(filter, { ... })
PurgeEntriesNotMatchingFilter ==
  /\ logIssued < MaxLogOps
  /\ \E f \in LogFilters : Enqueue([op |-> "purge", entry |-> "", filter |-> f])

\* The queue runs its oldest operation and calls its completion handler.
RunQueued ==
  /\ logQueue # <<>>
  /\ LET job == Head(logQueue) IN
       /\ logFile' = CASE job.op = "clear" -> Cleared(logFile)
                       [] job.op = "append" -> Appended(logFile, job.entry)
                       [] job.op = "purge" -> Purged(logFile, job.filter)
       /\ logErr' = Append(logErr, [op |-> job.op, err |-> NoError])
       /\ logCleared' = (logCleared \/ job.op = "clear")
       /\ logAppended' = CASE job.op = "clear" -> <<>>
                           [] job.op = "append" -> Append(logAppended, job.entry)
                           [] job.op = "purge" -> logAppended
       /\ logPurged' = CASE job.op = "clear" -> FALSE
                         [] job.op = "append" -> logPurged
                         [] job.op = "purge" -> TRUE
  /\ logQueue' = Tail(logQueue)
  /\ UNCHANGED logIssued
  /\ UNCHANGED <<iosVars, appVars>>

NextLog ==
  \/ ClearEntries
  \/ AppendEntry
  \/ PurgeEntriesNotMatchingFilter
  \/ RunQueued

\* The log as constructed, with no run of runIosAsync under way.
InitLogOnly == IosIdle /\ InitLog /\ AppIdle

SpecLog == InitLogOnly /\ [][NextLog]_vars

(***************************************************************************)
(* Claims about PersistentFileLog                                          *)
(***************************************************************************)
\* C10: once a clearEntries has completed, and as long as nothing was purged
\* since, readEntries returns exactly the entries whose appendEntry completed
\* after that clear, in the order they completed (none right after the clear),
\* and every completion handler of a clear or an append got no error.
C10_ReadReturnsAppendedInOrder ==
  /\ (logCleared /\ ~logPurged) => ReadEntries = logAppended
  /\ \A i \in DOMAIN logErr :
       logErr[i].op \in {"clear", "append"} => logErr[i].err = NoError

\* A clear has completed and two different entries were appended after it.
C10_Witness ==
  /\ logCleared /\ ~logPurged
  /\ logAppended = <<"Test entry 1", "Test entry 2">>
  /\ ReadEntries = <<"Test entry 1", "Test entry 2">>

\* The entries of a file a filter accepts are the ones at these places.
KeptPlaces(file, filter) == {i \in DOMAIN file : file[i] \in filter}

\* A purge is the step the queue runs next and it runs it.
PurgeRuns ==
  /\ logQueue # <<>>
  /\ Head(logQueue).op = "purge"
  /\ logQueue' = Tail(logQueue)

\* C11: when a purgeEntriesNotMatchingFilter(filter) completes, its handler gets
\* no error and readEntries returns exactly the entries stored before for which
\* the filter is true, in their relative order: as many entries as places the
\* filter accepted, the k-th of them the entry of the k-th accepted place; no
\* rejected entry stays and no entry is added.
C11_PurgeKeepsMatchingInOrder ==
  [][PurgeRuns =>
       LET before == ReadEntries
           after == ReadEntries'
           filter == Head(logQueue).filter
           kept == KeptPlaces(before, filter)
       IN /\ Len(after) = Cardinality(kept)
          /\ \A i \in kept :
               after[Cardinality({j \in kept : j <= i})] = before[i]
          /\ \A k \in DOMAIN after : after[k] \in filter
          /\ logErr'[Len(logErr')] = [op |-> "purge", err |-> NoError]]_vars

\* The test's case: "Test entry 1" and "Test entry 2" were appended after a
\* clear, a purge completed, and only "Test entry 2" is left.
C11_Witness ==
  /\ logCleared /\ logPurged
  /\ logAppended = <<"Test entry 1", "Test entry 2">>
  /\ ReadEntries = <<"Test entry 2">>
  /\ logQueue = <<>>

(***************************************************************************)
(* NotificationScreen: the buttons whose handlers show an Alert.  Every    *)
(* press starts a run of the handler's async function; each await is a     *)
(* step, and the steps of several presses interleave as the OS answers     *)
(* them.  The badge buttons are "Increment the app icon's badge number"    *)
(* (_incrementIconBadgeNumberAsync) and "Clear the app icon's badge        *)
(* number" (_clearIconBadgeAsync).                                         *)
(***************************************************************************)
MaxPresses == 3
MaxStartBadge == 1
MaxPresented == 2

\* The handlers that await _obtainUserFacingNotifPermissionsAsync first
\* (lines 100-118, 285, 301, 320, 346); "presentWithActionButtons" is the
\* inline handler of lines 100-118.
UserFacingHandlers ==
  {"_presentLocalNotificationAsync", "presentWithActionButtons",
   "_scheduleLocalNotificationAsync",
   "_scheduleLocalNotificationWithCustomSoundAsync",
   "_scheduleLocalNotificationAndCancelAsync"}

\* The handlers that ask for the permission to receive remote notifications
\* (lines 273-282 called at 374, and lines 444-451).
RemoteHandlers == {"_sendNotificationAsync", "getPermissionsAndLogToken"}

\* The handlers of the screen's buttons that start with one awaited call of
\* the Notifications module; "getDevicePushToken" is the inline handler of
\* lines 155-158.
ButtonHandlers ==
  UserFacingHandlers \cup
  {"_sendNotificationAsync", "_unregisterForNotificationsAsync",
   "getDevicePushToken", "_countPresentedNotifications", "_dismissSingle",
   "_dismissAll"}

\* The first await of a handler.
FirstAwait(handler) ==
  CASE handler \in UserFacingHandlers \cup RemoteHandlers -> "getPermissions"
    [] handler = "_unregisterForNotificationsAsync" -> "unregister"
    [] handler = "getDevicePushToken" -> "pushToken"
    [] handler \in {"_countPresentedNotifications", "_dismissSingle"} -> "presented"
    [] handler = "_dismissAll" -> "dismissAll"
    [] handler = "_incrementIconBadgeNumberAsync" -> "get"
    [] handler = "_clearIconBadgeAsync" -> "clear"

\* A run of a handler that has reached its first await.
Run(handler) == [kind |-> handler, at |-> FirstAwait(handler), currentNumber |-> 0]

PermissionStatuses == {"granted", "denied", "undetermined"}

\* Where a run goes on once its permission helper has returned `permission`:
\* the user-facing handlers go on whatever the status (lines 101-102, 286,
\* 302, 321-323, 347), _sendNotificationAsync calls
\* registerForPushNotificationsAsync without awaiting it (lines 375-377),
\* getPermissionsAndLogToken asks for the push token when granted (453-454).
AfterPermission(handler, status) ==
  CASE handler \in {"presentWithActionButtons",
                    "_scheduleLocalNotificationWithCustomSoundAsync"} -> "setChannel"
    [] handler \in UserFacingHandlers -> "schedule"
    [] handler = "_sendNotificationAsync" -> "done"
    [] handler = "getPermissionsAndLogToken" ->
         IF status = "granted" THEN "expoPushToken" ELSE "done"

\* Alert.alert(`We don't have permission to ...`) (lines 267, 278, 452)
PermissionAlert(handler) ==
  IF handler \in RemoteHandlers
    THEN <<"We don't have permission to receive remote notifications.">>
    ELSE <<"We don't have permission to present notifications.">>

\* currentNumber + 1 (NotificationScreen.tsx line 363)
Incremented(currentNumber) == currentNumber + 1

\* Alert.alert(`Set the badge number to ${actualNumber}`) (line 365)
SetAlert(actualNumber) == <<"Set the badge number to ", actualNumber>>

\* Alert.alert(`Cleared the badge`) (line 370)
ClearedAlert == <<"Cleared the badge">>

\* Alert.alert(`An error occurred un-registering for notifications: ${e}`) (line 384)
UnregisterErrors == {"Error: unregister failed"}
UnregisterAlert(e) == <<"An error occurred un-registering for notifications: ", e>>

\* Alert.alert(`You currently have ${presentedNotifications.length} notifications presented`)
CountAlert(length) == <<"You currently have ", length, " notifications presented">>

\* Alert.alert(`Notifications dismissed`) (line 395)
DismissedAllAlert == <<"Notifications dismissed">>

\* Alert.alert(`No notifications to be dismissed`) (line 401)
NothingToDismissAlert == <<"No notifications to be dismissed">>

\* Alert.alert(`Notification dismissed`) (line 407)
DismissedAlert == <<"Notification dismissed">>

\* Alert.alert('Push token received', JSON.stringify(token)) (line 157); a
\* DevicePushToken has the members type and data.
PushTokens == {[type |-> "ios", data |-> "a1b2"], [type |-> "android", data |-> "c3d4"]}
StringifyToken(token) == <<<<"type", token.type>>, <<"data", token.data>>>>
PushTokenAlert(token) == <<"Push token received", StringifyToken(token)>>

\* A step of the run i that shows nothing.
Advance(i, at) ==
  /\ press' = [press EXCEPT ![i].at = at]
  /\ UNCHANGED <<badge, badgeStart, showInstructions, alerts>>

\* A step of the run i that shows an alert and goes on at `at`.
AdvanceWithAlert(i, at, alert) ==
  /\ press' = [press EXCEPT ![i].at = at]
  /\ alerts' = Append(alerts, alert)
  /\ UNCHANGED <<badge, badgeStart, showInstructions>>

\* onPress={this._incrementIconBadgeNumberAsync}: the function runs up to its first await
PressIncrement ==
  /\ Len(press) < MaxPresses
  /\ press' = Append(press, Run("_incrementIconBadgeNumberAsync"))
  /\ UNCHANGED <<badge, badgeStart, showInstructions, alerts>>
  /\ UNCHANGED <<iosVars, logVars, screenVars, tickVars>>

\* const currentNumber = await Notifications.getBadgeCountAsync()
GetBadgeCount ==
  \E i \in DOMAIN press :
    /\ press[i].at = "get"
    /\ press' = [press EXCEPT ![i].at = "set", ![i].currentNumber = badge]
    /\ UNCHANGED <<badge, badgeStart, showInstructions, alerts>>
    /\ UNCHANGED <<iosVars, logVars, screenVars, tickVars>>

\* await Notifications.setBadgeCountAsync(currentNumber + 1)
SetBadgeCount ==
  \E i \in DOMAIN press :
    /\ press[i].at = "set"
    /\ badge' = Incremented(press[i].currentNumber)
    /\ press' = [press EXCEPT ![i].at = "alert"]
    /\ UNCHANGED <<badgeStart, showInstructions, alerts>>
    /\ UNCHANGED <<iosVars, logVars, screenVars, tickVars>>

\* const actualNumber = await Notifications.getBadgeCountAsync(); Alert.alert(...)
AlertBadgeCount ==
  \E i \in DOMAIN press :
    /\ press[i].at = "alert"
    /\ AdvanceWithAlert(i, "done", SetAlert(badge))
    /\ UNCHANGED <<iosVars, logVars, screenVars, tickVars>>

\* onPress={this._clearIconBadgeAsync}: the function runs up to its await
PressClear ==
  /\ Len(press) < MaxPresses
  /\ press' = Append(press, Run("_clearIconBadgeAsync"))
  /\ UNCHANGED <<badge, badgeStart, showInstructions, alerts>>
  /\ UNCHANGED <<iosVars, logVars, screenVars, tickVars>>

\* await Notifications.setBadgeCountAsync(0); Alert.alert(`Cleared the badge`)
ClearIconBadge ==
  \E i \in DOMAIN press :
    /\ press[i].at = "clear"
    /\ badge' = 0
    /\ alerts' = Append(alerts, ClearedAlert)
    /\ press' = [press EXCEPT ![i].at = "done"]
    /\ UNCHANGED <<badgeStart, showInstructions>>
    /\ UNCHANGED <<iosVars, logVars, screenVars, tickVars>>

\* onPress of another button (lines 84-176): its handler runs up to its first await
PressButton ==
  /\ Len(press) < MaxPresses
  /\ \E handler \in ButtonHandlers : press' = Append(press, Run(handler))
  /\ UNCHANGED <<badge, badgeStart, showInstructions, alerts>>
  /\ UNCHANGED <<iosVars, logVars, screenVars, tickVars>>

\* "Show background notification handling instructions" (lines 432-438), shown
\* while showInstructions is false: setShowInstructions(true);
\* getPermissionsAndLogToken()
ShowInstructions ==
  /\ Len(press) < MaxPresses
  /\ ~showInstructions
  /\ showInstructions' = TRUE
  /\ press' = Append(press, Run("getPermissionsAndLogToken"))
  /\ UNCHANGED <<badge, badgeStart, alerts>>
  /\ UNCHANGED <<iosVars, logVars, screenVars, tickVars>>

\* "Hide background notification handling instructions" (lines 424-427), shown
\* while showInstructions is true: setShowInstructions(false)
HideInstructions ==
  /\ showInstructions
  /\ showInstructions' = FALSE
  /\ UNCHANGED <<badge, badgeStart, press, alerts>>
  /\ UNCHANGED <<iosVars, logVars, screenVars, tickVars>>

\* let permission = await Notifications.getPermissionsAsync() (lines 263, 274,
\* 445); when granted the helper returns and its caller goes on
GetPermissions ==
  \E i \in DOMAIN press, status \in PermissionStatuses :
    /\ press[i].at = "getPermissions"
    /\ Advance(i, IF status = "granted" THEN AfterPermission(press[i].kind, status)
                  ELSE "requestPermissions")
    /\ UNCHANGED <<iosVars, logVars, screenVars, tickVars>>

\* permission = await Notifications.requestPermissionsAsync(); when still not
\* granted, Alert.alert(...) (lines 265-268, 276-279, 447-453)
RequestPermissions ==
  \E i \in DOMAIN press, status \in PermissionStatuses :
    /\ press[i].at = "requestPermissions"
    /\ IF status = "granted"
         THEN Advance(i, AfterPermission(press[i].kind, status))
         ELSE AdvanceWithAlert(i, AfterPermission(press[i].kind, status),
                               PermissionAlert(press[i].kind))
    /\ UNCHANGED <<iosVars, logVars, screenVars, tickVars>>

\* await Notifications.setNotificationChannelAsync(...) (lines 102, 323)
SetNotificationChannel ==
  \E i \in DOMAIN press :
    /\ press[i].at = "setChannel"
    /\ Advance(i, "schedule")
    /\ UNCHANGED <<iosVars, logVars, screenVars, tickVars>>

\* await Notifications.scheduleNotificationAsync(...) (lines 107, 287, 303, 328,
\* 348); only _scheduleLocalNotificationAndCancelAsync goes on after it
ScheduleNotification ==
  \E i \in DOMAIN press :
    /\ press[i].at = "schedule"
    /\ Advance(i, IF press[i].kind = "_scheduleLocalNotificationAndCancelAsync"
                  THEN "cancel" ELSE "done")
    /\ UNCHANGED <<iosVars, logVars, screenVars, tickVars>>

\* await Notifications.cancelScheduledNotificationAsync(notificationId) (line 359)
CancelScheduledNotification ==
  \E i \in DOMAIN press :
    /\ press[i].at = "cancel"
    /\ Advance(i, "done")
    /\ UNCHANGED <<iosVars, logVars, screenVars, tickVars>>

\* const { data: token } = await Notifications.getExpoPushTokenAsync();
\* console.log(...) (lines 454-455)
GetExpoPushToken ==
  \E i \in DOMAIN press :
    /\ press[i].at = "expoPushToken"
    /\ Advance(i, "done")
    /\ UNCHANGED <<iosVars, logVars, screenVars, tickVars>>

\* try { await Notifications.unregisterForNotificationsAsync() }
\* catch (e) { Alert.alert(...) } (lines 380-385)
UnregisterForNotifications ==
  \E i \in DOMAIN press, ret \in {"ok"} \cup UnregisterErrors :
    /\ press[i].at = "unregister"
    /\ IF ret = "ok" THEN Advance(i, "done")
       ELSE AdvanceWithAlert(i, "done", UnregisterAlert(ret))
    /\ UNCHANGED <<iosVars, logVars, screenVars, tickVars>>

\* const token = await Notifications.getDevicePushTokenAsync();
\* Alert.alert('Push token received', JSON.stringify(token)) (lines 156-157)
GetDevicePushToken ==
  \E i \in DOMAIN press, token \in PushTokens :
    /\ press[i].at = "pushToken"
    /\ AdvanceWithAlert(i, "done", PushTokenAlert(token))
    /\ UNCHANGED <<iosVars, logVars, screenVars, tickVars>>

\* const presentedNotifications = await Notifications.getPresentedNotificationsAsync()
\* in _countPresentedNotifications (lines 389-390) and in _dismissSingle
\* (lines 399-405), which returns after an alert when there are none
GetPresentedNotifications ==
  \E i \in DOMAIN press, length \in 0..MaxPresented :
    /\ press[i].at = "presented"
    /\ IF press[i].kind = "_countPresentedNotifications"
         THEN AdvanceWithAlert(i, "done", CountAlert(length))
         ELSE IF length = 0
                THEN AdvanceWithAlert(i, "done", NothingToDismissAlert)
                ELSE Advance(i, "dismiss")
    /\ UNCHANGED <<iosVars, logVars, screenVars, tickVars>>

\* await Notifications.dismissNotificationAsync(identifier);
\* Alert.alert(`Notification dismissed`) (lines 406-407)
DismissNotification ==
  \E i \in DOMAIN press :
    /\ press[i].at = "dismiss"
    /\ AdvanceWithAlert(i, "done", DismissedAlert)
    /\ UNCHANGED <<iosVars, logVars, screenVars, tickVars>>

\* await Notifications.dismissAllNotificationsAsync();
\* Alert.alert(`Notifications dismissed`) (lines 394-395)
DismissAllNotifications ==
  \E i \in DOMAIN press :
    /\ press[i].at = "dismissAll"
    /\ AdvanceWithAlert(i, "done", DismissedAllAlert)
    /\ UNCHANGED <<iosVars, logVars, screenVars, tickVars>>

InitBadge ==
  /\ IosIdle /\ InitLog /\ ScreenIdle /\ TickIdle
  /\ badge \in 0..MaxStartBadge
  /\ badgeStart = badge
  /\ press = <<>>
  /\ showInstructions = FALSE
  /\ alerts = <<>>

NextBadge ==
  \/ PressIncrement
  \/ GetBadgeCount
  \/ SetBadgeCount
  \/ AlertBadgeCount
  \/ PressClear
  \/ ClearIconBadge
  \/ PressButton
  \/ ShowInstructions
  \/ HideInstructions
  \/ GetPermissions
  \/ RequestPermissions
  \/ SetNotificationChannel
  \/ ScheduleNotification
  \/ CancelScheduledNotification
  \/ GetExpoPushToken
  \/ UnregisterForNotifications
  \/ GetDevicePushToken
  \/ GetPresentedNotifications
  \/ DismissNotification
  \/ DismissAllNotifications

SpecBadge == InitBadge /\ [][NextBadge]_vars

\* The presses of the increment button whose run has returned.
CompletedPresses ==
  {i \in DOMAIN press :
     press[i].kind = "_incrementIconBadgeNumberAsync" /\ press[i].at = "done"}

\* The presses of the clear button.
ClearPresses == {i \in DOMAIN press : press[i].kind = "_clearIconBadgeAsync"}

\* C13: every completed press of the increment button raises the badge count
\* by exactly one: whenever no press is under way and the badge was not
\* cleared, the badge count is the count before the first press plus the
\* number of completed presses, however the presses interleaved.
C13_EachPressAddsOne ==
  (ClearPresses = {} /\ \A i \in DOMAIN press : press[i].at = "done")
    => badge = badgeStart + Cardinality(CompletedPresses)

(***************************************************************************)
(* NotificationScreen: the notification listeners (componentDidMount,      *)
(* componentWillUnmount).  The Notifications module keeps the set of       *)
(* subscriptions; a delivered notification calls the handler of every      *)
(* subscription of its kind.                                               *)
(***************************************************************************)
MaxMounts == 2
MaxResponses == 2

Platforms == {"ios", "android", "web"}

\* Platform.OS !== 'ios' && Platform.OS !== 'android' is false (line 33)
NativePlatform(os) == os = "ios" \/ os = "android"

Subscription(id, kind) == [id |-> id, kind |-> kind]

\* The listeners left when only the received-listener is removed.
AfterUnmountReceivedOnly(ls, received, response) ==
  {l \in ls : l.id # received}

\* this._onReceivedListener?.remove(); this._onResponseReceivedListener?.remove()
\* (lines 76-77); an undefined field (0) removes nothing.
AfterUnmount(ls, received, response) ==
  {l \in ls : l.id # received /\ l.id # response}

\* notificationResponse.actionIdentifier and .userText, as the handler reads
\* them; userText is undefined (NoText) unless the action takes text input.
NoText == "undefined"
Responses == [actionIdentifier : {"first-button"}, userText : {NoText, "hi"}]

\* JSON.stringify({ actionIdentifier, userText }) (lines 241-244): the members
\* in order, a member whose value is undefined left out.
StringifyResponse(r) ==
  IF r.userText = NoText
    THEN <<<<"actionIdentifier", r.actionIdentifier>>>>
    ELSE <<<<"actionIdentifier", r.actionIdentifier>>, <<"userText", r.userText>>>>

\* Alert.alert('You clicked on the notification 🥇', JSON.stringify(...))
ResponseAlert(r) == <<"You clicked on the notification", StringifyResponse(r)>>

\* componentDidMount (lines 32-73)
ComponentDidMount ==
  /\ ~mounted
  /\ mounts < MaxMounts
  /\ mounted' = TRUE
  /\ mounts' = mounts + 1
  /\ IF NativePlatform(platformOS)
       THEN /\ listeners' = listeners \cup {Subscription(subIssued + 1, "received"),
                                           Subscription(subIssued + 2, "response")}
            /\ onReceivedListener' = subIssued + 1
            /\ onResponseReceivedListener' = subIssued + 2
            /\ subIssued' = subIssued + 2
       ELSE UNCHANGED <<listeners, onReceivedListener, onResponseReceivedListener,
                        subIssued>>
  /\ UNCHANGED <<platformOS, delivered, responseTimers>>
  /\ UNCHANGED <<iosVars, logVars, badgeVars, tickVars>>

\* componentWillUnmount (lines 75-78)
ComponentWillUnmount ==
  /\ mounted
  /\ mounted' = FALSE
  /\ listeners' = AfterUnmount(listeners, onReceivedListener, onResponseReceivedListener)
  /\ UNCHANGED <<platformOS, mounts, subIssued, onReceivedListener,
                 onResponseReceivedListener, delivered, responseTimers>>
  /\ UNCHANGED <<iosVars, logVars, badgeVars, tickVars>>

\* A notification (or the user's response to one) arrives: the module calls
\* _handleReceivedNotification / _handleNotificationResponseReceived (lines
\* 223-249) once for every subscription of that kind.  Each call of the
\* response handler sets a 1000 ms timer that holds the response (lines
\* 236-246).
DeliverNotification ==
  /\ \E kind \in {"received", "response"}, response \in Responses :
       LET handlers == Cardinality({l \in listeners : l.kind = kind})
           set == IF kind = "response" THEN handlers ELSE 0
       IN /\ Len(alerts) + Len(responseTimers) + set <= MaxResponses
          /\ delivered' = delivered \cup
               {[kind |-> kind, mounted |-> mounted, mounts |-> mounts,
                 handlers |-> handlers]}
          /\ responseTimers' = responseTimers \o [k \in 1..set |-> response]
  /\ UNCHANGED <<platformOS, mounted, mounts, listeners, subIssued,
                 onReceivedListener, onResponseReceivedListener>>
  /\ UNCHANGED <<iosVars, logVars, badgeVars, tickVars>>

\* The timer of a response comes due (lines 237-245): Alert.alert('You clicked
\* on the notification 🥇', JSON.stringify({ actionIdentifier, userText })),
\* whether or not the screen is still mounted.  Timers of equal delay run in
\* the order they were set.
RunResponseTimer ==
  /\ responseTimers # <<>>
  /\ alerts' = Append(alerts, ResponseAlert(Head(responseTimers)))
  /\ responseTimers' = Tail(responseTimers)
  /\ UNCHANGED <<platformOS, mounted, mounts, listeners, subIssued,
                 onReceivedListener, onResponseReceivedListener, delivered>>
  /\ UNCHANGED <<iosVars, logVars, pressVars, tickVars>>

InitScreen ==
  /\ IosIdle /\ InitLog /\ BadgeIdle /\ TickIdle
  /\ platformOS \in Platforms
  /\ mounted = FALSE
  /\ mounts = 0
  /\ listeners = {}
  /\ subIssued = 0
  /\ onReceivedListener = 0
  /\ onResponseReceivedListener = 0
  /\ delivered = {}
  /\ responseTimers = <<>>

NextScreen ==
  \/ ComponentDidMount
  \/ ComponentWillUnmount
  \/ DeliverNotification
  \/ RunResponseTimer

SpecScreen == InitScreen /\ [][NextScreen]_vars

\* C14: the screen holds notification listeners only while mounted: on iOS and
\* Android a mounted screen has exactly one received-listener and one
\* response-listener registered (the two its fields name), an unmounted screen
\* has none, and a notification reaches one handler when the screen is mounted
\* and none otherwise; on any other platform no listener is ever registered,
\* the fields stay undefined and no handler is ever called.
C14_ListenersOnlyWhileMounted ==
  /\ (NativePlatform(platformOS) /\ mounted) =>
       /\ listeners = {Subscription(onReceivedListener, "received"),
                       Subscription(onResponseReceivedListener, "response")}
       /\ onReceivedListener # 0 /\ onResponseReceivedListener # 0
       /\ onReceivedListener # onResponseReceivedListener
  /\ ~mounted => listeners = {}
  /\ ~NativePlatform(platformOS) =>
       (listeners = {} /\ subIssued = 0
          /\ onReceivedListener = 0 /\ onResponseReceivedListener = 0)
  /\ subIssued = (IF NativePlatform(platformOS) THEN mounts + mounts ELSE 0)
  /\ \A d \in delivered :
       d.handlers = (IF d.mounted /\ NativePlatform(platformOS) THEN 1 ELSE 0)

\* On iOS or Android: both kinds of notification reached a handler while the
\* screen was mounted, and both arrived again after the unmount, reaching none.
C14_Witness ==
  /\ NativePlatform(platformOS)
  /\ ~mounted
  /\ \A kind \in {"received", "response"} :
       /\ [kind |-> kind, mounted |-> TRUE, mounts |-> 1, handlers |-> 1] \in delivered
       /\ [kind |-> kind, mounted |-> FALSE, mounts |-> 1, handlers |-> 0] \in delivered

(***************************************************************************)
(* The process.nextTick polyfill (polyfillNextTick.ts).  JavaScript runs a *)
(* call to completion before the event loop runs a due timer, so a         *)
(* setTimeout callback runs only while no nextTick call is executing.      *)
(***************************************************************************)
MaxTicks == 3

TickCallbacks == {"f", "g"}
TickArgLists == {<<>>, <<"a">>, <<"a", "b">>}

\* if (!process.nextTick) { process.nextTick = ... } (line 6)
Polyfilled(existing) == IF existing = "absent" THEN "polyfill" ELSE existing

\* The callback called at once instead of through setTimeout.
NextTickSynchronous(call, callback, args) ==
  [scheduled |-> <<>>,
   called |-> <<[call |-> call, cb |-> callback, args |-> args]>>]

\* (callback, ...args) => { setTimeout(() => callback(...args), 0); } (lines 7-9):
\* what the call schedules and what it calls before it returns.
NextTickPolyfill(call, callback, args) ==
  [scheduled |-> <<[call |-> call, cb |-> callback, args |-> args]>>,
   called |-> <<>>]

\* An invocation of a callback, and whether the nextTick call had returned.
Invocation(t, returned) ==
  [call |-> t.call, cb |-> t.cb, args |-> t.args, returned |-> returned]

\* The polyfill module is run (import of polyfillNextTick.ts).
LoadPolyfill ==
  /\ ~tickLoaded
  /\ tickLoaded' = TRUE
  /\ nextTick' = Polyfilled(nextTick)
  /\ UNCHANGED <<tickNative, tickGiven, tickStack, timers, invoked>>
  /\ UNCHANGED <<iosVars, logVars, badgeVars, screenVars>>

\* process.nextTick(callback, ...args) is called and runs the polyfill's body.
CallNextTick ==
  /\ nextTick = "polyfill"
  /\ tickStack = 0
  /\ Len(tickGiven) < MaxTicks
  /\ \E callback \in TickCallbacks, args \in TickArgLists :
       LET call == Len(tickGiven) + 1
           body == NextTickPolyfill(call, callback, args)
       IN /\ tickGiven' = Append(tickGiven, [cb |-> callback, args |-> args])
          /\ tickStack' = call
          /\ timers' = timers \o body.scheduled
          /\ invoked' = invoked \o
               [k \in DOMAIN body.called |-> Invocation(body.called[k], FALSE)]
  /\ UNCHANGED <<nextTick, tickNative, tickLoaded>>
  /\ UNCHANGED <<iosVars, logVars, badgeVars, screenVars>>

\* The nextTick call returns to its caller.
ReturnNextTick ==
  /\ tickStack # 0
  /\ tickStack' = 0
  /\ UNCHANGED <<nextTick, tickNative, tickLoaded, tickGiven, timers, invoked>>
  /\ UNCHANGED <<iosVars, logVars, badgeVars, screenVars>>

\* The event loop runs the oldest due timer: () => callback(...args) (line 8).
RunTimer ==
  /\ timers # <<>>
  /\ tickStack = 0
  /\ invoked' = Append(invoked, Invocation(Head(timers), tickStack # Head(timers).call))
  /\ timers' = Tail(timers)
  /\ UNCHANGED <<nextTick, tickNative, tickLoaded, tickGiven, tickStack>>
  /\ UNCHANGED <<iosVars, logVars, badgeVars, screenVars>>

InitTick ==
  /\ IosIdle /\ InitLog /\ BadgeIdle /\ ScreenIdle
  /\ nextTick \in {"absent", "native"}
  /\ tickNative = (nextTick = "native")
  /\ tickLoaded = FALSE
  /\ tickGiven = <<>>
  /\ tickStack = 0
  /\ timers = <<>>
  /\ invoked = <<>>

NextTick ==
  \/ LoadPolyfill
  \/ CallNextTick
  \/ ReturnNextTick
  \/ RunTimer

\* A call returns, and the event loop keeps running due timers.
SpecTick ==
  InitTick /\ [][NextTick]_vars /\ WF_vars(ReturnNextTick) /\ WF_vars(RunTimer)

InvocationsOf(call) == {k \in DOMAIN invoked : invoked[k].call = call}
TimersOf(call) == {k \in DOMAIN timers : timers[k].call = call}

\* C15: with process.nextTick absent, the polyfilled nextTick(callback, ...args)
\* never calls the callback before the nextTick call has returned; every call
\* made is either still due as one timer or was invoked exactly once, with the
\* callback and exactly the arguments given, and it is eventually invoked; with
\* process.nextTick present, the polyfill leaves it as it is and schedules
\* nothing.
C15_CallbackOnceLaterWithArgs ==
  /\ [](/\ \A k \in DOMAIN invoked :
             /\ invoked[k].returned
             /\ invoked[k].call # tickStack
             /\ invoked[k].cb = tickGiven[invoked[k].call].cb
             /\ invoked[k].args = tickGiven[invoked[k].call].args
        /\ \A c \in DOMAIN tickGiven :
             Cardinality(InvocationsOf(c)) + Cardinality(TimersOf(c)) = 1
        /\ tickNative => (nextTick = "native" /\ timers = <<>> /\ invoked = <<>>)
        /\ (~tickNative /\ tickLoaded) => nextTick = "polyfill")
  /\ \A c \in 1..MaxTicks :
       (Len(tickGiven) >= c) ~> (InvocationsOf(c) # {})

\* Two calls were made with different arguments and both callbacks have run,
\* in the order of the calls.
C15_Witness ==
  /\ ~tickNative /\ nextTick = "polyfill"
  /\ tickGiven = <<[cb |-> "f", args |-> <<"a", "b">>], [cb |-> "g", args |-> <<>>]>>
  /\ timers = <<>>
  /\ invoked = <<[call |-> 1, cb |-> "f", args |-> <<"a", "b">>, returned |-> TRUE],
                 [call |-> 2, cb |-> "g", args |-> <<>>, returned |-> TRUE]>>

====
